---- MODULE Spec2Model ----
(***************************************************************************)
(* Model of nipype/pipeline/plugins/pbs.py: PBSPlugin, the PBS/Torque      *)
(* batch plugin.  Text is modelled as a sequence of one-character strings  *)
(* so that the str operations the plugin uses (split, join, in, slicing,   *)
(* os.path.dirname, os.path.splitext, replace) are computed as Python      *)
(* computes them.                                                          *)
(***************************************************************************)
EXTENDS Integers, Sequences, FiniteSets, TLC

VARIABLES
    side,            \* which side of the unresolved merge at pbs.py:92-101 is built
    _max_tries,      \* self._max_tries
    _retry_timeout,  \* self._retry_timeout
    _max_jobname_len,\* self._max_jobname_len
    _qsub_args,      \* self._qsub_args: {} for None, {s} for the string s
    _pending,        \* self._pending: taskid -> output directory
    level,           \* iflogger.level
    pc,              \* position of the caller in _submit_batchtask / the poll pass
    call,            \* arguments and environment of the _submit_batchtask call
    qsubargs,        \* local qsubargs
    jobname,         \* local jobname
    args,            \* cmd.inputs.args
    oldlevel,        \* local oldlevel
    tries,           \* local tries
    events,          \* cmd.run() executions and sleep() calls of the current call
    result,          \* result.runtime.stdout of the successful run: {} or {s}
    ret,             \* value returned by _submit_batchtask: {} or {taskid}
    entry,           \* iflogger.level and self._pending when the call was entered
    polled,          \* last poll pass: taskid -> qstat reply and _is_pending's answer
    first            \* inputs and job name of the first call that built one: {} or {r}

vars == <<side, _max_tries, _retry_timeout, _max_jobname_len, _qsub_args,
          _pending, level, pc, call, qsubargs, jobname, args, oldlevel, tries,
          events, result, ret, entry, polled, first>>

----------------------------------------------------------------------------
(* Python str and os.path operations on sequences of characters.           *)

\* sub in s
Contains(sub, s) ==
    \E i \in 0..(Len(s) - Len(sub)) : SubSeq(s, i + 1, i + Len(sub)) = sub

\* index (1-based) of the first occurrence of character c in s, 0 if none
RECURSIVE FindFrom(_, _, _)
FindFrom(s, c, i) ==
    IF i > Len(s) THEN 0
    ELSE IF s[i] = c THEN i
    ELSE FindFrom(s, c, i + 1)

\* s.split(c): every c separates; "" gives [""]
RECURSIVE Split(_, _)
Split(s, c) ==
    LET i == FindFrom(s, c, 1) IN
    IF i = 0 THEN <<s>>
    ELSE <<SubSeq(s, 1, i - 1)>> \o Split(SubSeq(s, i + 1, Len(s)), c)

\* sep.join(items)
RECURSIVE Join(_, _)
Join(items, sep) ==
    IF Len(items) = 0 THEN <<>>
    ELSE IF Len(items) = 1 THEN items[1]
    ELSE items[1] \o sep \o Join(Tail(items), sep)

\* list.reverse()
Reverse(items) == [i \in 1..Len(items) |-> items[Len(items) + 1 - i]]

\* s[0:n], n of either sign
Slice0(s, n) ==
    IF n >= 0 THEN SubSeq(s, 1, IF n < Len(s) THEN n ELSE Len(s))
    ELSE SubSeq(s, 1, IF Len(s) + n > 0 THEN Len(s) + n ELSE 0)

\* s.rfind(c) + 1: 1-based index of the last c, 0 if none
RECURSIVE RFind(_, _, _)
RFind(s, c, i) ==
    IF i = 0 THEN 0
    ELSE IF s[i] = c THEN i
    ELSE RFind(s, c, i - 1)

\* s.rstrip(c)
RECURSIVE RStrip(_, _)
RStrip(s, c) ==
    IF Len(s) > 0 /\ s[Len(s)] = c THEN RStrip(SubSeq(s, 1, Len(s) - 1), c)
    ELSE s

\* os.path.dirname(p) (posixpath)
Dirname(p) ==
    LET i == RFind(p, "/", Len(p))
        head == SubSeq(p, 1, i)
    IN  IF head # <<>> /\ \E k \in 1..Len(head) : head[k] # "/"
        THEN RStrip(head, "/")
        ELSE head

\* os.path.splitext(p)[0] (posixpath): the extension starts at the last dot
\* of the last component, unless only dots precede it in that component
Splitext0(p) ==
    LET sepIndex == RFind(p, "/", Len(p))
        dotIndex == RFind(p, ".", Len(p))
    IN  IF dotIndex > sepIndex
           /\ \E k \in (sepIndex + 1)..(dotIndex - 1) : p[k] # "."
        THEN SubSeq(p, 1, dotIndex - 1)
        ELSE p

\* s.replace(old, new), old nonempty
RECURSIVE Replace(_, _, _)
Replace(s, old, new) ==
    IF Len(s) < Len(old) THEN s
    ELSE IF SubSeq(s, 1, Len(old)) = old
         THEN new \o Replace(SubSeq(s, Len(old) + 1, Len(s)), old, new)
         ELSE <<s[1]>> \o Replace(Tail(s), old, new)

\* truth value of an optional str: None and "" are false
Truthy(opt) == opt # {} /\ opt # {<<>>}

\* the str held by a non-None optional
Val(opt) == CHOOSE s \in opt : TRUE

----------------------------------------------------------------------------
(* Text constants of pbs.py.                                               *)

Dot == "."
DashO == <<"-","o">>
DashE == <<"-","e">>
JobStateC == <<"j","o","b","_","s","t","a","t","e"," ","="," ","C">>
success == <<"J","o","b"," ","h","a","s"," ","f","i","n","i","s","h","e","d">>
errmsg == <<"U","n","k","n","o","w","n"," ","J","o","b"," ","I","d">>
PythonPrefix ==
    <<" ","\"","/","h","o","m","e","/","p","r","e","d","a","t","t","/","g","i",
      "a","a","l","d","/",".","c","o","n","d","a","/","e","n","v","s","/","g",
      "i","a","c","o","m","o","/","b","i","n","/","p","y","t","h","o","n"," ">>
PipeQsub == <<"\""," ","|"," ","q","s","u","b"," ">>
BatchscriptPrefix == <<"b","a","t","c","h","s","c","r","i","p","t","_">>
DotPy == <<".","p","y">>

CRITICAL == 50
DefaultRetryTimeout == 2
DefaultMaxTries == 2
DefaultMaxJobnameLen == 15

----------------------------------------------------------------------------
(* The straight-line part of _submit_batchtask.                            *)

\* Qsubargs appending the node's arguments whatever overwrite says
QsubargsAlwaysAppended(global, plugin_args, path) ==
    LET q0 == IF Truthy(global) THEN Val(global) ELSE <<>>
        q1 == IF "qsub_args" \in DOMAIN plugin_args
              THEN q0 \o <<" ">> \o plugin_args["qsub_args"]
              ELSE q0
        q2 == IF ~Contains(DashO, q1) THEN q1 \o <<" ">> \o DashO \o <<" ">> \o path
              ELSE q1
    IN  IF ~Contains(DashE, q2) THEN q2 \o <<" ">> \o DashE \o <<" ">> \o path
        ELSE q2

\* pbs.py:72-83: the qsub arguments
Qsubargs(global, plugin_args, path) ==
    LET q0 == IF Truthy(global) THEN Val(global) ELSE <<>>
        q1 == IF "qsub_args" \in DOMAIN plugin_args
              THEN IF "overwrite" \in DOMAIN plugin_args /\ plugin_args["overwrite"]
                   THEN plugin_args["qsub_args"]
                   ELSE q0 \o <<" ">> \o plugin_args["qsub_args"]
              ELSE q0
        q2 == IF ~Contains(DashO, q1) THEN q1 \o <<" ">> \o DashO \o <<" ">> \o path
              ELSE q1
    IN  IF ~Contains(DashE, q2) THEN q2 \o <<" ">> \o DashE \o <<" ">> \o path
        ELSE q2

\* Jobname cutting one character late
JobnameOneMore(environ, node, maxlen) ==
    LET joined == IF node._hierarchy # <<>>
                  THEN Join(<<environ["LOGNAME"], node._hierarchy, node._id>>, <<Dot>>)
                  ELSE Join(<<environ["LOGNAME"], node._id>>, <<Dot>>)
        jobnameitems == Reverse(Split(joined, Dot))
    IN  Slice0(Join(jobnameitems, <<Dot>>), maxlen + 1)

\* Jobname without the reversal of the items
JobnameNotReversed(environ, node, maxlen) ==
    LET joined == IF node._hierarchy # <<>>
                  THEN Join(<<environ["LOGNAME"], node._hierarchy, node._id>>, <<Dot>>)
                  ELSE Join(<<environ["LOGNAME"], node._id>>, <<Dot>>)
    IN  Slice0(Join(Split(joined, Dot), <<Dot>>), maxlen)

\* Jobname numbering the name once the registry holds an entry
JobnameNumbered(environ, node, maxlen) ==
    LET joined == IF node._hierarchy # <<>>
                  THEN Join(<<environ["LOGNAME"], node._hierarchy, node._id>>, <<Dot>>)
                  ELSE Join(<<environ["LOGNAME"], node._id>>, <<Dot>>)
        jobnameitems == Reverse(Split(joined, Dot))
        number == IF DOMAIN _pending = {} THEN <<>> ELSE <<"1", Dot>>
    IN  Slice0(number \o Join(jobnameitems, <<Dot>>), maxlen)

\* pbs.py:84-91: the job name; environ holds LOGNAME
Jobname(environ, node, maxlen) ==
    LET joined == IF node._hierarchy # <<>>
                  THEN Join(<<environ["LOGNAME"], node._hierarchy, node._id>>, <<Dot>>)
                  ELSE Join(<<environ["LOGNAME"], node._id>>, <<Dot>>)
        jobnameitems == Reverse(Split(joined, Dot))
    IN  Slice0(Join(jobnameitems, <<Dot>>), maxlen)

\* pbs.py:92-101: cmd.inputs.args, on either side of the merge
CmdArgs(which, scriptfile, qargs, name) ==
    IF which = "HEAD"
    THEN LET py_filename ==
                 Replace(Splitext0(scriptfile), BatchscriptPrefix, <<>>) \o DotPy
         IN  PythonPrefix \o py_filename \o PipeQsub \o qargs
                 \o <<" ","-","N"," ">> \o name
    ELSE qargs \o <<" ","-","N"," ">> \o name \o <<" ">> \o scriptfile

\* Taskid cutting at the last dot instead of the first
TaskidLastDot(stdout) ==
    LET i == RFind(stdout, Dot, Len(stdout)) IN
    IF i = 0 THEN stdout ELSE SubSeq(stdout, 1, i - 1)

\* pbs.py:123: the task id is what precedes the first dot of the reply
Taskid(stdout) == Split(stdout, Dot)[1]

\* IsPending looking for the unknown-job marker on standard output
IsPendingErrmsgInStdout(stdout, stderr) ==
    IF Contains(success, stderr) \/ Contains(JobStateC, stdout)
    THEN FALSE
    ELSE ~Contains(errmsg, stdout)

\* pbs.py:55-62: the classification of a qstat reply
IsPending(stdout, stderr) ==
    IF Contains(success, stderr) \/ Contains(JobStateC, stdout)
    THEN FALSE
    ELSE ~Contains(errmsg, stderr)

\* pbs.py:52: ignore_exception of the qstat command line
IgnoreException == TRUE

\* IsPendingCall built without ignore_exception: a failed qstat raises
IsPendingCallRaising(reply) ==
    [stdout |-> reply.stdout, stderr |-> reply.stderr, code |-> reply.code,
     queries |-> 1,
     raised |-> reply.code # 0,
     pending |-> IsPending(reply.stdout, reply.stderr)]

\* pbs.py:46-62: one call of _is_pending; reply is what the one run of
\* qstat -f gives (exit code, standard output, standard error)
IsPendingCall(reply) ==
    [stdout |-> reply.stdout, stderr |-> reply.stderr, code |-> reply.code,
     queries |-> 1,
     raised |-> ~IgnoreException /\ reply.code # 0,
     pending |-> IsPending(reply.stdout, reply.stderr)]

\* MayRetry with the test on the counter lost
MayRetryAlways(t, max_tries) == TRUE

\* pbs.py:110: whether a failed run is retried
MayRetry(t, max_tries) == t < max_tries

\* SetLevelBack leaving the threshold where it is
SetLevelKept(old, current) == current

\* pbs.py:115 and pbs.py:121: iflogger.setLevel(oldlevel)
SetLevelBack(old, current) == old

\* Register leaving the registry as it is
RegisterNothing(pending, taskid, output_dir) == pending

\* Register rebinding the registry to the new entry alone
RegisterAlone(pending, taskid, output_dir) ==
    [t \in {taskid} |-> output_dir]

\* pbs.py:124: self._pending[taskid] = node.output_dir()
Register(pending, taskid, output_dir) ==
    [t \in DOMAIN pending \cup {taskid} |->
        IF t = taskid THEN output_dir ELSE pending[t]]

----------------------------------------------------------------------------
(* The state after construction (pbs.py:30-44) and the operations.         *)

Sides == {"HEAD", "theirs"}
NoEnviron == [k \in {} |-> <<>>]
NoCall == [scriptfile |-> <<>>, output_dir |-> <<>>, _hierarchy |-> <<>>,
           _id |-> <<>>, plugin_args |-> NoEnviron, environ |-> NoEnviron]
Run(ok) == [op |-> "run", arg |-> IF ok THEN 1 ELSE 0]
Sleep(secs) == [op |-> "sleep", arg |-> secs]

\* the caller is between two operations of the plugin
Outside == pc \in {"idle", "returned", "raised", "keyerror", "polled"}

InitWith(tries_set, timeout_set, len_set, qsub_set, level_set) ==
    /\ side \in Sides
    /\ _max_tries \in tries_set
    /\ _retry_timeout \in timeout_set
    /\ _max_jobname_len \in len_set
    /\ _qsub_args \in qsub_set
    /\ level \in level_set
    /\ _pending = NoEnviron
    /\ pc = "idle"
    /\ call = NoCall
    /\ qsubargs = <<>>
    /\ jobname = <<>>
    /\ args = <<>>
    /\ oldlevel = 0
    /\ tries = 0
    /\ events = <<>>
    /\ result = {}
    /\ ret = {}
    /\ entry = [level |-> 0, pending |-> NoEnviron]
    /\ polled = NoEnviron
    /\ first = {}

\* SubmitEnter raising the log threshold before it reads LOGNAME
SubmitEnterLevelFirst(scriptfile, node, environ) ==
    /\ Outside
    /\ call' = [scriptfile |-> scriptfile, output_dir |-> node.output_dir,
                _hierarchy |-> node._hierarchy, _id |-> node._id,
                plugin_args |-> node.plugin_args, environ |-> environ]
    /\ entry' = [level |-> level, pending |-> _pending]
    /\ polled' = NoEnviron
    /\ tries' = 0
    /\ events' = <<>>
    /\ result' = {}
    /\ ret' = {}
    /\ IF "LOGNAME" \in DOMAIN environ
       THEN /\ qsubargs' = Qsubargs(_qsub_args, node.plugin_args,
                                    Dirname(scriptfile))
            /\ jobname' = Jobname(environ, node, _max_jobname_len)
            /\ args' = CmdArgs(side, scriptfile, qsubargs', jobname')
            /\ first' = IF first = {}
                        THEN {[environ |-> environ, _hierarchy |-> node._hierarchy,
                               _id |-> node._id, jobname |-> jobname']}
                        ELSE first
            /\ oldlevel' = level
            /\ level' = CRITICAL
            /\ pc' = "loop"
       ELSE /\ qsubargs' = Qsubargs(_qsub_args, node.plugin_args,
                                    Dirname(scriptfile))
            /\ jobname' = <<>>
            /\ args' = <<>>
            /\ first' = first
            /\ oldlevel' = level
            /\ level' = CRITICAL
            /\ pc' = "keyerror"
    /\ UNCHANGED <<side, _max_tries, _retry_timeout, _max_jobname_len,
                   _qsub_args, _pending>>

\* pbs.py:64-105: _submit_batchtask up to the retry loop; a missing LOGNAME
\* ends the call with KeyError at line 85 or 87
SubmitEnter(scriptfile, node, environ) ==
    /\ Outside
    /\ call' = [scriptfile |-> scriptfile, output_dir |-> node.output_dir,
                _hierarchy |-> node._hierarchy, _id |-> node._id,
                plugin_args |-> node.plugin_args, environ |-> environ]
    /\ entry' = [level |-> level, pending |-> _pending]
    /\ polled' = NoEnviron
    /\ tries' = 0
    /\ events' = <<>>
    /\ result' = {}
    /\ ret' = {}
    /\ IF "LOGNAME" \in DOMAIN environ
       THEN /\ qsubargs' = Qsubargs(_qsub_args, node.plugin_args,
                                    Dirname(scriptfile))
            /\ jobname' = Jobname(environ, node, _max_jobname_len)
            /\ args' = CmdArgs(side, scriptfile, qsubargs', jobname')
            /\ first' = IF first = {}
                        THEN {[environ |-> environ, _hierarchy |-> node._hierarchy,
                               _id |-> node._id, jobname |-> jobname']}
                        ELSE first
            /\ oldlevel' = level
            /\ level' = CRITICAL
            /\ pc' = "loop"
       ELSE /\ qsubargs' = Qsubargs(_qsub_args, node.plugin_args,
                                    Dirname(scriptfile))
            /\ jobname' = <<>>
            /\ args' = <<>>
            /\ first' = first
            /\ oldlevel' = 0
            /\ level' = level
            /\ pc' = "keyerror"
    /\ UNCHANGED <<side, _max_tries, _retry_timeout, _max_jobname_len,
                   _qsub_args, _pending>>

\* RunRaises retrying at once, without the sleep
RunRaisesNoSleep ==
    /\ pc = "loop"
    /\ IF MayRetry(tries, _max_tries)
       THEN /\ tries' = tries + 1
            /\ events' = Append(events, Run(FALSE))
            /\ UNCHANGED <<level, pc>>
       ELSE /\ events' = Append(events, Run(FALSE))
            /\ level' = SetLevelBack(oldlevel, level)
            /\ pc' = "raised"
            /\ UNCHANGED tries
    /\ UNCHANGED <<side, _max_tries, _retry_timeout, _max_jobname_len,
                   _qsub_args, _pending, call, qsubargs, jobname, args, oldlevel,
                   result, ret, entry, polled, first>>

\* RunRaises returning None instead of raising once the tries are used up
RunRaisesSwallowed ==
    /\ pc = "loop"
    /\ IF MayRetry(tries, _max_tries)
       THEN /\ tries' = tries + 1
            /\ events' = events \o <<Run(FALSE), Sleep(_retry_timeout)>>
            /\ UNCHANGED <<level, pc>>
       ELSE /\ events' = Append(events, Run(FALSE))
            /\ level' = SetLevelBack(oldlevel, level)
            /\ pc' = "returned"
            /\ UNCHANGED tries
    /\ UNCHANGED <<side, _max_tries, _retry_timeout, _max_jobname_len,
                   _qsub_args, _pending, call, qsubargs, jobname, args, oldlevel,
                   result, ret, entry, polled, first>>

\* pbs.py:106-118: cmd.run() raises; retry after a sleep, or give up
RunRaises ==
    /\ pc = "loop"
    /\ IF MayRetry(tries, _max_tries)
       THEN /\ tries' = tries + 1
            /\ events' = events \o <<Run(FALSE), Sleep(_retry_timeout)>>
            /\ UNCHANGED <<level, pc>>
       ELSE /\ events' = Append(events, Run(FALSE))
            /\ level' = SetLevelBack(oldlevel, level)
            /\ pc' = "raised"
            /\ UNCHANGED tries
    /\ UNCHANGED <<side, _max_tries, _retry_timeout, _max_jobname_len,
                   _qsub_args, _pending, call, qsubargs, jobname, args, oldlevel,
                   result, ret, entry, polled, first>>

\* pbs.py:106-108, 119-127: cmd.run() returns with stdout
RunReturns(stdout) ==
    /\ pc = "loop"
    /\ events' = Append(events, Run(TRUE))
    /\ level' = SetLevelBack(oldlevel, level)
    /\ result' = {stdout}
    /\ _pending' = Register(_pending, Taskid(stdout), call.output_dir)
    /\ ret' = {Taskid(stdout)}
    /\ pc' = "returned"
    /\ UNCHANGED <<side, _max_tries, _retry_timeout, _max_jobname_len,
                   _qsub_args, call, qsubargs, jobname, args, oldlevel, tries,
                   entry, polled, first>>

\* Batch Manager: one pass over the registry, _is_pending called once for
\* each entry with the reply qstat gives for it; the entries it classifies
\* as finished are removed
PollPass(replies) ==
    /\ Outside
    /\ polled' = [t \in DOMAIN _pending |-> IsPendingCall(replies[t])]
    /\ _pending' = [t \in {k \in DOMAIN _pending : polled'[k].pending}
                     |-> _pending[t]]
    /\ pc' = "polled"
    /\ call' = NoCall
    /\ qsubargs' = <<>>
    /\ jobname' = <<>>
    /\ args' = <<>>
    /\ oldlevel' = 0
    /\ tries' = 0
    /\ events' = <<>>
    /\ result' = {}
    /\ ret' = {}
    /\ entry' = [level |-> 0, pending |-> NoEnviron]
    /\ UNCHANGED <<side, _max_tries, _retry_timeout, _max_jobname_len,
                   _qsub_args, level, first>>

----------------------------------------------------------------------------
(* Submission and polling of a few nodes under every retry configuration.  *)

MaxTriesBound == 2
MaxRetryTimeout == 2

LogLevels == {10, 20}
User == [LOGNAME |-> <<"u">>]
Script == <<"/","w","/","s",".","s","h">>
Node1 == [_hierarchy |-> <<"w","f">>, _id |-> <<"n","1">>,
          plugin_args |-> NoEnviron, output_dir |-> <<"/","o","1">>]
Node2 == [_hierarchy |-> <<>>, _id |-> <<"n","2">>,
          plugin_args |-> NoEnviron, output_dir |-> <<"/","o","2">>]
QsubReplies == { <<"1","2",".","s">>, <<"7",".","a",".","b">>, <<"7">>,
                 <<>>, <<".","s">> }
QstatReplies == { [stdout |-> <<"Q">>, stderr |-> <<>>, code |-> 0],
                  [stdout |-> JobStateC, stderr |-> <<>>, code |-> 0],
                  [stdout |-> <<>>, stderr |-> errmsg, code |-> 153] }

Init ==
    InitWith(0..MaxTriesBound, 1..MaxRetryTimeout, {DefaultMaxJobnameLen},
             {{}}, LogLevels)

Next ==
    \/ \E node \in {Node1, Node2}, environ \in {User, NoEnviron} :
           SubmitEnter(Script, node, environ)
    \/ RunRaises
    \/ \E stdout \in QsubReplies : RunReturns(stdout)
    \/ \E replies \in [DOMAIN _pending -> QstatReplies] : PollPass(replies)

Spec == Init /\ [][Next]_vars

----------------------------------------------------------------------------
(* Properties of submission and polling.                                   *)

\* the number of cmd.run() executions in ev that ended ok / not ok
RECURSIVE CountRuns(_, _)
CountRuns(ev, ok) ==
    IF ev = <<>> THEN 0
    ELSE (IF Head(ev) = Run(ok) THEN 1 ELSE 0) + CountRuns(Tail(ev), ok)

Executions == CountRuns(events, TRUE) + CountRuns(events, FALSE)

\* t is the text of s that precedes its first dot (all of s if it has none)
PrecedesFirstDot(t, s) ==
    /\ Len(t) <= Len(s)
    /\ SubSeq(s, 1, Len(t)) = t
    /\ \A i \in 1..Len(t) : t[i] # Dot
    /\ Len(t) < Len(s) => s[Len(t) + 1] = Dot

\* C1 (as claimed): when every execution of the submission command fails,
\* the error is raised after exactly max_tries executions.
C1_RaisesAfterMaxTriesExecutions ==
    (pc = "raised" /\ _max_tries >= 1) => Executions = _max_tries

\* C2: a call whose command fails k < max_tries times and then succeeds
\* returns the task id parsed from the successful reply, after exactly k
\* sleeps of retry_timeout each, one after every failure and none after the
\* success.
C2_RetryThenSuccess ==
    LET k == CountRuns(events, FALSE) IN
    (pc = "returned" /\ k < _max_tries) =>
        /\ \E t \in ret : PrecedesFirstDot(t, Val(result))
        /\ Len(events) = 2 * k + 1
        /\ \A i \in 1..k : /\ events[2 * i - 1] = Run(FALSE)
                           /\ events[2 * i] = Sleep(_retry_timeout)
        /\ events[2 * k + 1] = Run(TRUE)

C2_Witness ==
    /\ pc = "returned"
    /\ _max_tries = 2
    /\ _retry_timeout = 1
    /\ CountRuns(events, FALSE) = 1
    /\ Val(result) = <<"7",".","a",".","b">>

\* C3: after a successful submit the returned task id is the text that
\* precedes the first dot of the reply on standard output, and the registry
\* maps it to the output directory of the submitted node.
C3_ReturnedTaskidRegistered ==
    pc = "returned" =>
        \E t \in ret :
            /\ PrecedesFirstDot(t, Val(result))
            /\ t \in DOMAIN _pending
            /\ _pending[t] = call.output_dir

C3_Witness ==
    /\ pc = "returned"
    /\ Val(result) = <<"7",".","a",".","b">>
    /\ ret = {<<"7">>}
    /\ _pending[<<"7">>] = <<"/","o","2">>
    /\ <<"1","2">> \in DOMAIN _pending

\* C4: an entry of the registry is still there after every step, except
\* after a poll pass whose reply for it is classified as finished, and then
\* it is gone.
C4_EntryLivesUntilPolledFinished ==
    [][\A t \in DOMAIN _pending :
          (t \in DOMAIN _pending') <=>
              ~(pc' = "polled"
                /\ ~polled'[t].pending)]_vars

C4_Witness ==
    /\ pc = "polled"
    /\ \E t \in DOMAIN polled : polled[t].pending /\ t \in DOMAIN _pending
    /\ \E t \in DOMAIN polled : ~polled[t].pending /\ t \notin DOMAIN _pending

\* C6 (as claimed): when the command succeeds with a reply that has nothing
\* before its first dot, submit ends in an error and the registry is as it
\* was when the call was entered.
C6_MalformedReplyRaises ==
    \A s \in result :
        (s = <<>> \/ s[1] = Dot) =>
            /\ pc # "returned"
            /\ _pending = entry.pending

\* C7: while the retry loop runs the interface log threshold is CRITICAL,
\* and when submit has returned or raised after the loop the threshold is
\* what it was when submit was entered.
C7_LogLevelRestored ==
    /\ pc = "loop" => level = CRITICAL
    /\ pc \in {"returned", "raised"} => level = entry.level

C7_Witness ==
    /\ pc = "raised"
    /\ entry.level = 10
    /\ level = 10
    /\ Executions = 3

\* C13: a submit entered without LOGNAME in the environment ends in an error
\* before any submission command is run, with the registry and the log
\* threshold as they were when it was entered.
C13_MissingLognameRaises ==
    (call # NoCall /\ "LOGNAME" \notin DOMAIN call.environ) =>
        /\ pc = "keyerror"
        /\ events = <<>>
        /\ ret = {}
        /\ _pending = entry.pending
        /\ level = entry.level

C13_Witness ==
    /\ pc = "keyerror"
    /\ call.environ = NoEnviron
    /\ call._id = <<"n","2">>
    /\ DOMAIN _pending = {<<"7">>, <<"1","2">>}
    /\ level = 10

\* C16: in every step of every interleaving of submits and poll passes the
\* registry gains exactly the task id a submit returns and loses exactly the
\* task ids a poll pass classifies as finished; it starts empty, so it always
\* holds the submitted task ids not yet observed finished.
C16_RegistryTracksPendingJobs ==
    /\ (pc = "idle" => _pending = NoEnviron)
    /\ [][DOMAIN _pending' =
            (DOMAIN _pending \cup (IF pc' = "returned" THEN ret' ELSE {}))
                \ (IF pc' = "polled"
                   THEN {t \in DOMAIN polled' : ~polled'[t].pending}
                   ELSE {})]_vars

C16_Witness ==
    /\ pc = "polled"
    /\ DOMAIN polled = {<<>>, <<"7">>, <<"1","2">>}
    /\ polled[<<>>].pending
    /\ polled[<<"7">>].stderr = errmsg
    /\ polled[<<"1","2">>].pending
    /\ DOMAIN _pending = {<<>>, <<"1","2">>}

\* C18: a submit that has left the retry loop without a successful run has
\* raised the submission error, has returned nothing, and has left the
\* registry as it was when the call was entered.
C18_FailedSubmitKeepsRegistry ==
    (Outside /\ events # <<>> /\ CountRuns(events, TRUE) = 0) =>
        /\ pc = "raised"
        /\ ret = {}
        /\ _pending = entry.pending

C18_Witness ==
    /\ pc = "raised"
    /\ CountRuns(events, FALSE) = 2
    /\ DOMAIN entry.pending = {<<"7">>, <<>>}
    /\ _pending = entry.pending

----------------------------------------------------------------------------
(* Classification of qstat replies: one job, every reply of QstatTexts.    *)

QstatStdouts ==
    { <<>>,
      <<"j","o","b","_","s","t","a","t","e"," ","="," ","Q">>,
      JobStateC,
      <<"x"," ">> \o JobStateC \o <<" ","y">>,
      <<"j","o","b","_","s","t","a","t","e"," ","="," ","c">>,
      success,
      errmsg }
QstatStderrs ==
    { <<>>,
      success,
      <<"q","s","t","a","t",":"," ">> \o errmsg \o <<" ","7",".","s">>,
      <<"u","n","k","n","o","w","n"," ","j","o","b"," ","i","d">>,
      <<"J","o","b"," ","h","a","s"," ","f","i","n","i","s","h","e">>,
      JobStateC }
QstatTexts == [stdout : QstatStdouts, stderr : QstatStderrs, code : {0, 153}]

InitPoll ==
    InitWith({DefaultMaxTries}, {DefaultRetryTimeout}, {DefaultMaxJobnameLen},
             {{}}, LogLevels)

NextPoll ==
    \/ SubmitEnter(Script, Node1, User)
    \/ RunRaises
    \/ RunReturns(<<"1","2",".","s">>)
    \/ \E replies \in [DOMAIN _pending -> QstatTexts] : PollPass(replies)

SpecPoll == InitPoll /\ [][NextPoll]_vars

\* C5: _is_pending answers False when standard output contains
\* "job_state = C", or standard error contains "Job has finished" or
\* "Unknown Job Id", and True for every other pair of texts.
C5_Classification ==
    \A t \in DOMAIN polled :
        polled[t].pending =
            ~(\/ Contains(JobStateC, polled[t].stdout)
              \/ Contains(success, polled[t].stderr)
              \/ Contains(errmsg, polled[t].stderr))

C5_Witness ==
    /\ pc = "polled"
    /\ \E t \in DOMAIN polled :
           /\ polled[t].stdout = errmsg
           /\ polled[t].stderr = JobStateC
           /\ polled[t].pending
           /\ t \in DOMAIN _pending

\* C12: for every exit code, standard output and standard error of qstat,
\* _is_pending runs the query once, does not raise, answers a boolean, and
\* answers pending when none of the three finished markers is in its stream.
C12_PollNeverRaises ==
    \A t \in DOMAIN polled :
        /\ ~polled[t].raised
        /\ polled[t].queries = 1
        /\ polled[t].pending \in BOOLEAN
        /\ ( /\ ~Contains(JobStateC, polled[t].stdout)
             /\ ~Contains(success, polled[t].stderr)
             /\ ~Contains(errmsg, polled[t].stderr) ) => polled[t].pending

C12_Witness ==
    /\ pc = "polled"
    /\ \E t \in DOMAIN polled :
           /\ polled[t].code = 153
           /\ polled[t].stdout = <<>>
           /\ polled[t].stderr = <<"u","n","k","n","o","w","n"," ","j","o","b"," ","i","d">>
           /\ polled[t].pending
           /\ t \in DOMAIN _pending

----------------------------------------------------------------------------
(* The qsub arguments: global and node arguments, script directories.      *)

GlobalArgs == { {}, {<<>>}, {<<"-","q"," ","l">>}, {<<"-","o"," ","/","x">>} }
PluginArgs ==
    { NoEnviron,
      [overwrite |-> TRUE],
      [qsub_args |-> <<"-","o"," ","/","y">>],
      [qsub_args |-> <<"-","e"," ","/","z">>, overwrite |-> TRUE],
      [qsub_args |-> <<"-","q"," ","l">>, overwrite |-> FALSE] }
Scripts ==
    { Script,
      <<"s",".","s","h">>,
      <<"/","d","-","e","/","s",".","s","h">>,
      <<"/","w","/","b","a","t","c","h","s","c","r","i","p","t","_","n","1",".","s","h">> }
ArgsNodes == { [Node1 EXCEPT !.plugin_args = pa] : pa \in PluginArgs }

InitArgs ==
    InitWith({DefaultMaxTries}, {DefaultRetryTimeout}, {DefaultMaxJobnameLen},
             GlobalArgs, {20})

NextArgs ==
    \/ \E scriptfile \in Scripts, node \in ArgsNodes :
           SubmitEnter(scriptfile, node, User)
    \/ RunRaises
    \/ RunReturns(<<"1","2",".","s">>)
    \/ \E replies \in [DOMAIN _pending -> QstatReplies] : PollPass(replies)

SpecArgs == InitArgs /\ [][NextArgs]_vars

\* the number of the blank-separated words of text that are flag
RECURSIVE CountWord(_, _)
CountWord(words, flag) ==
    IF words = <<>> THEN 0
    ELSE (IF Head(words) = flag THEN 1 ELSE 0) + CountWord(Tail(words), flag)

Words(text) == Split(text, " ")

\* the caller gave flag in the global or in the node's arguments
CallerGave(flag) ==
    \/ \E g \in _qsub_args : CountWord(Words(g), flag) > 0
    \/ /\ "qsub_args" \in DOMAIN call.plugin_args
       /\ CountWord(Words(call.plugin_args["qsub_args"]), flag) > 0

\* flag is followed by dir in the command
FlagWith(flag, dir) ==
    \E i \in 1..(Len(Words(args)) - 1) :
        Words(args)[i] = flag /\ Words(args)[i + 1] = dir

\* C8 (as claimed): whatever the global and the node's arguments, the
\* command holds -o exactly once and -e exactly once, each with the directory
\* of the script when the caller gave none.
C8_OutputFlagsOnce ==
    pc = "loop" =>
        \A flag \in {DashO, DashE} :
            /\ CountWord(Words(args), flag) = 1
            /\ ~CallerGave(flag) => FlagWith(flag, Dirname(call.scriptfile))

----------------------------------------------------------------------------
(* Properties of the command built from the arguments.                     *)

\* the words of text that are not empty
RECURSIVE NonEmpty(_)
NonEmpty(words) ==
    IF words = <<>> THEN <<>>
    ELSE (IF Head(words) = <<>> THEN <<>> ELSE <<Head(words)>>)
             \o NonEmpty(Tail(words))

ArgWords(text) == NonEmpty(Words(text))

\* the words of the global arguments and of the node's arguments
GlobalWords == IF _qsub_args = {} THEN <<>> ELSE ArgWords(Val(_qsub_args))
NodeWords == ArgWords(call.plugin_args["qsub_args"])

\* what lines 80-83 may add for the script directory dir
Defaults(dir) ==
    { <<>>, <<DashO>> \o NonEmpty(<<dir>>), <<DashE>> \o NonEmpty(<<dir>>),
      <<DashO>> \o NonEmpty(<<dir>>) \o <<DashE>> \o NonEmpty(<<dir>>) }

\* C11: before the output flags are defaulted, the submission arguments are
\* the global ones when the node gives none, the node's alone when it gives
\* some and marks overwrite, and the global ones followed by the node's when
\* it gives some without overwrite.
C11_EffectiveArguments ==
    pc = "loop" =>
        \E added \in Defaults(Dirname(call.scriptfile)) :
            ArgWords(qsubargs) =
                (IF "qsub_args" \notin DOMAIN call.plugin_args
                 THEN GlobalWords
                 ELSE IF /\ "overwrite" \in DOMAIN call.plugin_args
                         /\ call.plugin_args["overwrite"]
                      THEN NodeWords
                      ELSE GlobalWords \o NodeWords) \o added

C11_Witness ==
    /\ pc = "loop"
    /\ _qsub_args = {<<"-","o"," ","/","x">>}
    /\ call.plugin_args = [qsub_args |-> <<"-","e"," ","/","z">>, overwrite |-> TRUE]
    /\ call.scriptfile = Script
    /\ ArgWords(qsubargs) = << DashE, <<"/","z">>, DashO, <<"/","w">> >>

\* C17 (as claimed): the command that submit runs holds the submission
\* arguments, then -N and the job name, and the path of the script file
\* that was passed to submit.
C17_CommandEmbedsScript ==
    pc = "loop" =>
        /\ Contains(qsubargs \o <<" ","-","N"," ">> \o jobname, args)
        /\ CountWord(Words(args), call.scriptfile) = 1

----------------------------------------------------------------------------
(* The job name: users, hierarchies, leaf ids and maximum lengths.         *)

MaxLenBound == 4

Alice == [LOGNAME |-> <<"a","l","i","c","e">>]
Hierarchies == { <<>>, <<"a",".","b">>, <<"w","f",".","b","r","a","n","c","h">> }
LeafIds == { <<"c">>, <<"n","o","d","e","1">> }
NameNodes == { [Node1 EXCEPT !._hierarchy = h, !._id = l] :
                   h \in Hierarchies, l \in LeafIds }

InitName ==
    InitWith({DefaultMaxTries}, {DefaultRetryTimeout},
             0..MaxLenBound \cup {DefaultMaxJobnameLen}, {{}}, {20})

NextName ==
    \/ \E node \in NameNodes, environ \in {User, Alice, NoEnviron} :
           SubmitEnter(Script, node, environ)
    \/ RunRaises
    \/ RunReturns(<<"1","2",".","s">>)
    \/ \E replies \in [DOMAIN _pending -> QstatReplies] : PollPass(replies)

SpecName == InitName /\ [][NextName]_vars

\* submit has built the job name of the call
Built == pc \in {"loop", "returned", "raised"}

\* C9: for every user, hierarchy, leaf id and maximum length (a natural
\* number), the job name is at most that long.
C9_JobnameLength == Built => Len(jobname) <= _max_jobname_len

C9_Witness ==
    /\ Built
    /\ _max_jobname_len = 3
    /\ call.environ = User
    /\ call._hierarchy = <<"a",".","b">>
    /\ call._id = <<"c">>
    /\ Len(jobname) = 3

\* the segments of the hierarchy of the call
Segments == IF call._hierarchy = <<>> THEN <<>> ELSE Split(call._hierarchy, Dot)

\* the first n characters of text
FirstChars(text, n) == [i \in 1..(IF n < Len(text) THEN n ELSE Len(text)) |-> text[i]]

\* C10: the job name is the first maxLen characters of the user name, the
\* hierarchy segments and the leaf id joined with dots, split on dots,
\* reversed and rejoined; alice, [wf, branch], node1, 15 gives
\* node1.branch.wf and u, [a, b], c, 3 gives c.b.
C10_JobnameReversedTruncated ==
    Built =>
        /\ jobname =
             FirstChars(
                 Join(Reverse(Split(Join(<<call.environ["LOGNAME"]>> \o Segments
                                             \o <<call._id>>, <<Dot>>), Dot)),
                      <<Dot>>),
                 _max_jobname_len)
        /\ ( /\ call.environ = Alice
             /\ Segments = << <<"w","f">>, <<"b","r","a","n","c","h">> >>
             /\ call._id = <<"n","o","d","e","1">>
             /\ _max_jobname_len = 15 )
           => jobname = <<"n","o","d","e","1",".","b","r","a","n","c","h",".","w","f">>
        /\ ( /\ call.environ = User
             /\ Segments = << <<"a">>, <<"b">> >>
             /\ call._id = <<"c">>
             /\ _max_jobname_len = 3 )
           => jobname = <<"c",".","b">>

C10_Witness ==
    /\ Built
    /\ call.environ = Alice
    /\ call._hierarchy = <<"w","f",".","b","r","a","n","c","h">>
    /\ call._id = <<"n","o","d","e","1">>
    /\ _max_jobname_len = 15
    /\ jobname = <<"n","o","d","e","1",".","b","r","a","n","c","h",".","w","f">>

----------------------------------------------------------------------------
(* Two nodes submitted to two servers that number their jobs alike.        *)

RepliesTo(id) ==
    IF id = Node1._id THEN { <<"7",".","a">>, <<"1","2",".","s">> }
    ELSE { <<"7",".","b">> }

InitIds ==
    InitWith({DefaultMaxTries}, {DefaultRetryTimeout}, {DefaultMaxJobnameLen},
             {{}}, {20})

NextIds ==
    \/ \E node \in {Node1, Node2} : SubmitEnter(Script, node, User)
    \/ RunRaises
    \/ \E stdout \in RepliesTo(call._id) : RunReturns(stdout)
    \/ \E replies \in [DOMAIN _pending -> QstatReplies] : PollPass(replies)

SpecIds == InitIds /\ [][NextIds]_vars

\* C15 (as claimed): a submit leaves every entry the registry held when it
\* was entered as it was: the output directory under an existing key is not
\* overwritten.
C15_EntriesNeverOverwritten ==
    pc = "returned" =>
        \A t \in DOMAIN entry.pending :
            t \in DOMAIN _pending /\ _pending[t] = entry.pending[t]

----------------------------------------------------------------------------
(* Progress: every command execution and sleep returns, and the driver     *)
(* keeps running poll passes.                                              *)

LoopStep == RunRaises \/ \E stdout \in QsubReplies : RunReturns(stdout)
PollStep == \E replies \in [DOMAIN _pending -> QstatReplies] : PollPass(replies)

InitFair ==
    InitWith(0..MaxTriesBound, {DefaultRetryTimeout}, {DefaultMaxJobnameLen},
             {{}}, {20})

SpecFair ==
    InitFair /\ [][Next]_vars /\ WF_vars(LoopStep) /\ WF_vars(PollStep)

SubmitStep ==
    \E node \in {Node1, Node2}, environ \in {User, NoEnviron} :
        SubmitEnter(Script, node, environ)

\* what the scheduler says of a job that is finished or that it no longer
\* knows, in the words of qstat
ReportsFinished(reply) ==
    \/ Contains(reply.stdout, JobStateC)
    \/ Contains(reply.stderr, errmsg)

====
